---- MODULE Spec2Model ----
(***************************************************************************)
(* Hangout.ai: the session state machine of HangoutOrchestrator            *)
(* (src/src/orchestrator.py), the Session entity model (src/src/models.py) *)
(* and the parsing done by NemotronClient (src/src/nemotron_client.py).    *)
(*                                                                         *)
(* One process_message call is a sequence of steps (pc), so that an        *)
(* exception raised by an oracle call abandons the call where the code     *)
(* abandons it.  The language oracle and the geocoder are the environment: *)
(* their answers are chosen from small sets.  Timestamps                   *)
(* (datetime.now()) are not modelled.                                      *)
(*                                                                         *)
(* Spec is the session under process_message calls.  ProjectionSpec takes  *)
(* get_session_state of sessions with up to MaxHistory stored messages,    *)
(* and TriggerSpec evaluates the finalization trigger on many texts.       *)
(***************************************************************************)
EXTENDS Integers, Sequences, FiniteSets, TLC

VARIABLES
    participants,          \* Session.participants
    conversation_history,  \* Session.conversation_history
    current_plan,          \* Session.current_plan
    finalized_plan,        \* Session.finalized_plan
    active_users,          \* Session.active_users
    state,                 \* Session.state
    maps_available,        \* GoogleMapsClient.client is not None
    pc,                    \* position inside process_message ("idle": no call running)
    user_message,          \* process_message argument
    user_name,             \* process_message argument
    user_id,               \* process_message argument
    should_finalize,       \* local of process_message
    extracted,             \* the dict the extraction adapter returned
    participant,           \* local of process_message
    is_new_participant,    \* local of process_message
    response,              \* local of process_message
    plan_data,             \* local of _generate_plan: the adapter's answer
    plan_parse,            \* how generate_hangout_plan came to that answer
    plan_update,           \* local of process_message
    result,                \* how the last call ended: returned (reply, plan_update) or raised
    pre,                   \* the session as it was when the running/last call began
    requests,              \* the oracle requests made by the running/last call, in order
    plan_attempts,         \* every call of _generate_plan / generate_hangout_plan so far
    generations,           \* number of plans installed as current_plan so far
    calls_made,            \* number of process_message calls begun so far
    projection             \* what the last get_session_state call returned, None if none

session == <<participants, conversation_history, current_plan, finalized_plan,
             active_users, state>>
locals == <<user_message, user_name, user_id, should_finalize, extracted,
            participant, is_new_participant, response, plan_data, plan_parse,
            plan_update>>
ghosts == <<pre, requests, plan_attempts, generations, calls_made>>
vars == <<session, maps_available, pc, locals, result, ghosts, projection>>

-----------------------------------------------------------------------------
(* Bounds of the model *)

\* process_message calls per behaviour
MaxCalls == 3

\* messages in the history of a session whose projection is taken
MaxHistory == 22

-----------------------------------------------------------------------------
(* Python values *)

\* None where an object (Participant, HangoutPlan, dict) is expected
None == [none |-> TRUE]
\* None where a str is expected (JSON null)
NoneStr == "<None>"
\* None where a list is expected (JSON null)
NoneList == <<"<None>">>

\* bool(s) of an Optional[str]
TruthyStr(s) == s # "" /\ s # NoneStr
\* bool(l) of an Optional[list]
TruthyList(l) == l # <<>> /\ l # NoneList

\* dict.get(k, default)
Get(d, k, default) == IF k \in DOMAIN d THEN d[k] ELSE default

RECURSIVE Join(_, _)
\* sep.join(list)
Join(list, sep) ==
    IF list = <<>> THEN ""
    ELSE IF Len(list) = 1 THEN list[1]
    ELSE list[1] \o sep \o Join(Tail(list), sep)

RECURSIVE FindFrom(_, _, _)
\* the first 1-based position >= i of character c in s, 0 when there is none
FindFrom(s, c, i) ==
    IF i > Len(s) THEN 0
    ELSE IF SubSeq(s, i, i) = c THEN i
    ELSE FindFrom(s, c, i + 1)

RECURSIVE RFindFrom(_, _, _)
\* the last 1-based position <= i of character c in s, 0 when there is none
RFindFrom(s, c, i) ==
    IF i < 1 THEN 0
    ELSE IF SubSeq(s, i, i) = c THEN i
    ELSE RFindFrom(s, c, i - 1)

\* s.find(c), 0-based, -1 when absent
Find(s, c) == FindFrom(s, c, 1) - 1

\* s.rfind(c), 0-based, -1 when absent
RFind(s, c) == RFindFrom(s, c, Len(s)) - 1

UpperCase == "ABCDEFGHIJKLMNOPQRSTUVWXYZ"
LowerCase == "abcdefghijklmnopqrstuvwxyz"

\* the upper-case letters and their lower-case forms
UpperLetters == {SubSeq(UpperCase, i, i) : i \in 1..Len(UpperCase)}
LowerOf ==
    [c \in UpperLetters |->
        SubSeq(LowerCase, FindFrom(UpperCase, c, 1), FindFrom(UpperCase, c, 1))]

\* str.lower() of one character
LowerChar(c) == IF c \in UpperLetters THEN LowerOf[c] ELSE c

RECURSIVE LowerOfString(_)
\* str.lower(), character by character
LowerOfString(s) ==
    IF Len(s) = 0 THEN ""
    ELSE LowerChar(SubSeq(s, 1, 1)) \o LowerOfString(SubSeq(s, 2, Len(s)))

\* str.lower() of the names the oracle and the users supply, computed once
LowerOfName == [s \in {"Sam", "SAM", "Alex"} |-> LowerOfString(s)]

\* str.lower()
Lower(s) == IF s \in DOMAIN LowerOfName THEN LowerOfName[s] ELSE LowerOfString(s)

\* sub in s
Contains(s, sub) ==
    \E i \in 1..(Len(s) - Len(sub) + 1) : SubSeq(s, i, i + Len(sub) - 1) = sub

\* s[start:end] for 0 <= start, 0 <= end <= len(s)
Slice(s, start, end) == IF start >= end THEN "" ELSE SubSeq(s, start + 1, end)

-----------------------------------------------------------------------------
(* The language oracle (src/src/nemotron_client.py) *)

\* JSON texts the oracle can embed in its answers.  The texts are written
\* without quotation marks; JsonLoads gives the dict json.loads returns for
\* the properly quoted text.
SamJson == "{name: Sam, address: Brooklyn, food_preferences: [sushi], constraints: null}"
SamUpdateJson == "{name: SAM, food_preferences: [thai], constraints: [vegan]}"
AlexJson == "{name: Alex, address: null, food_preferences: null, constraints: []}"
NoNameJson == "{name: null, address: Queens}"
EmptyJson == "{}"
PlanJson == "{venue_recommendation: Sushi Bar, reasoning_chain: central, alternatives: [Taco Place], confidence_level: High}"
NullVenueJson == "{venue_recommendation: null, reasoning_chain: not enough information}"

\* the empty dict
EmptyDict == <<>>

\* json.loads(s) does not raise JSONDecodeError
JsonValid(s) ==
    s \in {SamJson, SamUpdateJson, AlexJson, NoNameJson, EmptyJson,
           PlanJson, NullVenueJson}

\* json.loads(s), for the texts on which it does not raise
JsonLoads(s) ==
    CASE s = SamJson ->
            [name |-> "Sam", address |-> "Brooklyn",
             food_preferences |-> <<"sushi">>, constraints |-> NoneList]
      [] s = SamUpdateJson ->
            [name |-> "SAM", food_preferences |-> <<"thai">>,
             constraints |-> <<"vegan">>]
      [] s = AlexJson ->
            [name |-> "Alex", address |-> NoneStr,
             food_preferences |-> NoneList, constraints |-> <<>>]
      [] s = NoNameJson -> [name |-> NoneStr, address |-> "Queens"]
      [] s = PlanJson ->
            [venue_recommendation |-> "Sushi Bar", reasoning_chain |-> "central",
             alternatives |-> <<"Taco Place">>, confidence_level |-> "High"]
      [] s = NullVenueJson ->
            [venue_recommendation |-> NoneStr,
             reasoning_chain |-> "not enough information"]
      [] OTHER -> EmptyDict

\* requests.exceptions.RequestException re-raised by _make_request
RequestException == [raised |-> "RequestException"]

\* response.json() of a completed request whose message content is c
Completion(c) == [choices |-> <<[message |-> [content |-> c]]>>]
\* response.json() of a completed request that carries no 'choices'
NoChoices == [detail |-> "no completion"]

\* what _make_request can return to extract_participant_info
ExtractionResponses ==
    { Completion("Here you go: " \o SamJson \o " Anything else?"),
      Completion(SamUpdateJson),
      Completion(AlexJson),
      Completion(NoNameJson),
      Completion(EmptyJson),
      Completion("Nice to meet you all!"),
      Completion("{name: Sam"),
      Completion("} oops {"),
      Completion("{not json}"),
      NoChoices }

\* what _make_request can return to generate_hangout_plan
PlanResponses ==
    { Completion("My plan: " \o PlanJson),
      Completion(NullVenueJson),
      Completion(EmptyJson),
      Completion("I cannot decide yet."),
      Completion("{not json}") }

\* what _make_request can return to process_conversation
ConversationResponses == { Completion("Welcome!") }

\* response['choices'][0]['message']['content'] raises KeyError
RaisesKeyError(resp) == "choices" \notin DOMAIN resp

\* response['choices'][0]['message']['content']
Content(resp) == resp.choices[1].message.content

\* the text between the first '{' and the last '}' of content, as the
\* adapters cut it out; NoneStr when the adapters find no JSON
JsonStr(content) ==
    LET json_start == Find(content, "{")
        json_end == RFind(content, "}") + 1
    IN  IF json_start # -1 /\ json_end # 0
        THEN Slice(content, json_start, json_end)
        ELSE NoneStr

\* NemotronClient.extract_participant_info, from the response on
ExtractionResult(resp) ==
    IF RaisesKeyError(resp) THEN EmptyDict
    ELSE LET json_str == JsonStr(Content(resp))
         IN  IF json_str = NoneStr THEN EmptyDict
             ELSE IF JsonValid(json_str) THEN JsonLoads(json_str)
             ELSE EmptyDict

\* NemotronClient.generate_hangout_plan, from the response on
PlanResult(resp) ==
    IF RaisesKeyError(resp)
    THEN [venue_recommendation |-> "Error generating plan",
          reasoning_chain |-> "'choices'",
          alternatives |-> <<>>, confidence_level |-> "Low"]
    ELSE LET json_str == JsonStr(Content(resp))
         IN  IF json_str = NoneStr
             THEN [venue_recommendation |-> "Unable to generate recommendation",
                   reasoning_chain |-> Content(resp),
                   alternatives |-> <<>>, confidence_level |-> "Low"]
             ELSE IF JsonValid(json_str) THEN JsonLoads(json_str)
             ELSE [venue_recommendation |-> "Error generating plan",
                   reasoning_chain |-> "JSONDecodeError",
                   alternatives |-> <<>>, confidence_level |-> "Low"]

\* the branch of generate_hangout_plan that produced its answer
PlanParse(resp) ==
    IF RaisesKeyError(resp) THEN "KeyError"
    ELSE IF JsonStr(Content(resp)) = NoneStr THEN "no JSON found"
    ELSE IF JsonValid(JsonStr(Content(resp))) THEN "parsed"
    ELSE "JSONDecodeError"

\* NemotronClient.process_conversation, from the response on
ConversationResult(resp) ==
    IF RaisesKeyError(resp)
    THEN "I'm here to help plan your hangout! Please tell me your name and where you're located."
    ELSE Content(resp)

\* the adapters' answers to the responses above, computed once
ExtractionAnswers == [resp \in ExtractionResponses |-> ExtractionResult(resp)]
PlanAnswers == [resp \in PlanResponses |-> PlanResult(resp)]
PlanParses == [resp \in PlanResponses |-> PlanParse(resp)]
ConversationAnswers == [resp \in ConversationResponses |-> ConversationResult(resp)]

-----------------------------------------------------------------------------
(* The geocoder (src/src/maps_client.py) *)

\* formatted_address of the first geocoding result
Formatted(address) == address \o ", NY, USA"

\* what geocode_address(address) can return while the client is available:
\* the formatted address, or the address itself (no result, or the call failed)
GeocodeResults(address) == {Formatted(address), address}

-----------------------------------------------------------------------------
(* The entity model (src/src/models.py) *)

\* mutant of Message: the content is cut to its first 40 characters
MessageTruncated(content, name, type, identifier) ==
    [content |-> IF Len(content) <= 40 THEN content ELSE SubSeq(content, 1, 40),
     user_name |-> name, message_type |-> type, user_identifier |-> identifier]

\* Message(content, timestamp, user_name, message_type, user_identifier)
Message(content, name, type, identifier) ==
    [content |-> content, user_name |-> name, message_type |-> type,
     user_identifier |-> identifier]

\* mutant of NameMatches: the names are compared as written
NameMatchesExact(a, b) == a = b

\* p.name.lower() == participant.name.lower()
NameMatches(a, b) == Lower(a) = Lower(b)

\* index of the first roster entry add_participant's loop matches, 0 if none
MatchIndex(roster, p) ==
    IF \E i \in DOMAIN roster : NameMatches(roster[i].name, p.name)
    THEN CHOOSE i \in DOMAIN roster :
            /\ NameMatches(roster[i].name, p.name)
            /\ \A j \in 1..(i - 1) : ~NameMatches(roster[j].name, p.name)
    ELSE 0

\* mutant of AddParticipant: an update keeps the old address when the new
\* record has none
AddParticipantMerging(roster, p) ==
    IF MatchIndex(roster, p) # 0
    THEN [roster EXCEPT ![MatchIndex(roster, p)] =
            IF TruthyStr(p.address) THEN p
            ELSE [p EXCEPT !.address = roster[MatchIndex(roster, p)].address]]
    ELSE Append(roster, p)

\* mutant of AddParticipant: an updated entry moves to the end of the roster
AddParticipantMovingToEnd(roster, p) ==
    IF MatchIndex(roster, p) # 0
    THEN Append(SubSeq(roster, 1, MatchIndex(roster, p) - 1)
                  \o SubSeq(roster, MatchIndex(roster, p) + 1, Len(roster)), p)
    ELSE Append(roster, p)

\* mutant of AddParticipant: an update leaves only the updated entry
AddParticipantDroppingOthers(roster, p) ==
    IF MatchIndex(roster, p) # 0 THEN <<p>> ELSE Append(roster, p)

\* Session.add_participant: the roster afterwards
AddParticipant(roster, p) ==
    IF MatchIndex(roster, p) # 0
    THEN [roster EXCEPT ![MatchIndex(roster, p)] = p]
    ELSE Append(roster, p)

\* Session.add_participant: the value returned
IsNew(roster, p) == MatchIndex(roster, p) = 0

\* mutant of AddMessage: only the agent's messages are kept
AddMessageAgentOnly(history, msg) ==
    IF msg.message_type = "user_input" THEN history ELSE Append(history, msg)

\* mutant of AddMessage: the newest message comes first
AddMessagePrepending(history, msg) == <<msg>> \o history

\* Session.add_message: conversation_history afterwards
AddMessage(history, msg) == Append(history, msg)

\* mutant of AddActiveUser: every identifier is added, the empty one too
AddActiveUserAlways(users, msg) == users \cup {msg.user_identifier}

\* Session.add_message: active_users afterwards
AddActiveUser(users, msg) ==
    IF msg.user_identifier # "" THEN users \cup {msg.user_identifier} ELSE users

\* Session.to_dict: the number of messages it returns at most
HistoryCap == 20

\* mutant of Last: the oldest n elements, list[:n]
LastTakingOldest(list, n) ==
    IF Len(list) <= n THEN list ELSE SubSeq(list, 1, n)

\* list[-n:] for n > 0
Last(list, n) ==
    IF Len(list) <= n THEN list ELSE SubSeq(list, Len(list) - n + 1, Len(list))

\* mutant of StoredAfterSlice: the slice is taken in place
StoredAfterSliceInPlace(list, n) == Last(list, n)

\* the list a slice list[-n:] was taken of: the slice is a new list and the
\* list itself is left as it was
StoredAfterSlice(list, n) == list

\* Message.to_dict (timestamp left out)
MessageToDict(m) ==
    [content |-> m.content, user_name |-> m.user_name,
     message_type |-> m.message_type, user_identifier |-> m.user_identifier]

\* Participant.to_dict (timestamp left out)
ParticipantToDict(p) ==
    [name |-> p.name, address |-> p.address,
     food_preferences |-> p.food_preferences, constraints |-> p.constraints,
     user_identifier |-> p.user_identifier]

\* HangoutPlan.to_dict (generated_at left out)
PlanToDict(plan) ==
    [venue_recommendation |-> plan.venue_recommendation,
     reasoning_chain |-> plan.reasoning_chain,
     alternatives |-> plan.alternatives,
     participant_analysis |-> plan.participant_analysis,
     contributor_summary |-> plan.contributor_summary,
     confidence_level |-> plan.confidence_level,
     version |-> plan.version]

\* Session.to_dict (session_id and created_at left out)
SessionToDict ==
    [participants |->
        [i \in DOMAIN participants |-> ParticipantToDict(participants[i])],
     conversation_history |->
        [i \in DOMAIN Last(conversation_history, HistoryCap) |->
            MessageToDict(Last(conversation_history, HistoryCap)[i])],
     current_plan |->
        IF current_plan # None THEN PlanToDict(current_plan) ELSE None,
     finalized_plan |->
        IF finalized_plan # None THEN PlanToDict(finalized_plan) ELSE None,
     active_users |-> active_users,
     state |-> state,
     participant_count |-> Len(participants)]

-----------------------------------------------------------------------------
(* The orchestrator (src/src/orchestrator.py) *)

finalization_triggers ==
    <<"finalize", "make a plan", "make plan", "let's decide",
      "create plan", "generate plan", "what's the plan", "decide">>

\* mutant of ShouldFinalizePlan: a phrase counts only as whole words
ShouldFinalizePlanWholeWords(message) ==
    LET message_lower == " " \o Lower(message) \o " "
    IN  \E i \in DOMAIN finalization_triggers :
            Contains(message_lower, " " \o finalization_triggers[i] \o " ")

\* HangoutOrchestrator._should_finalize_plan
ShouldFinalizePlan(message) ==
    LET message_lower == Lower(message)
    IN  \E i \in DOMAIN finalization_triggers :
            Contains(message_lower, finalization_triggers[i])

\* mutant of NothingExtracted: only an empty dict counts as nothing
NothingExtractedEmptyOnly(dict) == DOMAIN dict = {}

\* _extract_participant_info: "not extracted or not extracted.get('name')"
NothingExtracted(dict) ==
    DOMAIN dict = {} \/ ~TruthyStr(Get(dict, "name", NoneStr))

\* _extract_participant_info: the Participant built from the extracted dict
MakeParticipant(dict, name) ==
    [name |-> Get(dict, "name", name),
     address |-> Get(dict, "address", ""),
     food_preferences |-> Get(dict, "food_preferences", <<>>),
     constraints |-> Get(dict, "constraints", <<>>),
     user_identifier |-> name]

\* mutant of NoPlanData: only an empty dict counts as no plan
NoPlanDataEmptyOnly(data) == DOMAIN data = {}

\* _generate_plan: "not plan_data or not plan_data.get('venue_recommendation')"
NoPlanData(data) ==
    DOMAIN data = {} \/ ~TruthyStr(Get(data, "venue_recommendation", NoneStr))

\* mutant of NextVersion: the versions are counted down
NextVersionCountingDown(plan) == IF plan # None THEN plan.version - 1 ELSE 1

\* mutant of NextVersion: the version is never raised
NextVersionAlwaysOne(plan) == 1

\* _generate_plan: the version of the plan being created
NextVersion(plan) == IF plan # None THEN plan.version + 1 ELSE 1

\* _generate_plan: the HangoutPlan built from plan_data
MakePlan(data, version) ==
    [venue_recommendation |-> Get(data, "venue_recommendation", ""),
     reasoning_chain |-> Get(data, "reasoning_chain", ""),
     alternatives |-> Get(data, "alternatives", <<>>),
     participant_analysis |-> Get(data, "participant_analysis", ""),
     contributor_summary |-> Get(data, "contributor_summary", ""),
     confidence_level |-> Get(data, "confidence_level", "Low"),
     version |-> version]

\* _generate_plan: "len(self.session.participants) < 2"
TooFewParticipants(roster) == Len(roster) < 2

\* _generate_plan, from the adapter's answer on: a HangoutPlan or None
GeneratePlan(roster, plan, data) ==
    IF TooFewParticipants(roster) THEN None
    ELSE IF NoPlanData(data) THEN None
    ELSE MakePlan(data, NextVersion(plan))

\* mutant of ShouldRegenerate: the roster size is not looked at
ShouldRegenerateAnySize(p, roster) == p # None

\* mutant of ShouldRegenerate: a roster of two is enough, participant or not
ShouldRegenerateWithoutParticipant(p, roster) == Len(roster) >= 2

\* process_message: "participant and len(self.session.participants) >= 2"
ShouldRegenerate(p, roster) == p # None /\ Len(roster) >= 2

\* process_message: the confirmation appended for an extracted participant
Confirmation(p, is_new) ==
    (IF is_new THEN "\n\nGot it! Added **" \o p.name \o "** "
               ELSE "\n\nUpdated info for **" \o p.name \o "** ")
    \o (IF TruthyStr(p.address) THEN "from " \o p.address ELSE "")
    \o (IF TruthyList(p.food_preferences)
        THEN " who likes " \o Join(p.food_preferences, ", ") ELSE "")
    \o (IF TruthyList(p.constraints)
        THEN " (" \o Join(p.constraints, ", ") \o ")" ELSE "")
    \o "."

\* [p.name for p in self.session.participants]
Names(roster) == [i \in DOMAIN roster |-> roster[i].name]

\* process_message: the plan update notification (its emoji left out)
PlanNotice(plan, roster) ==
    "\n\n**Plan Updated (v" \o ToString(plan.version) \o ")**: Now optimizing for "
    \o ToString(Len(roster)) \o " people (" \o Join(Names(roster), ", ") \o ")!"
    \o (IF plan.confidence_level = "High"
        THEN " We have a great recommendation ready!"
        ELSE IF plan.confidence_level = "Medium"
        THEN " Good options available."
        ELSE " Still gathering info for best recommendations.")

FinalizedNotice ==
    "\n\n**Plan Finalized!** The current recommendation has been locked in."

NeedParticipants ==
    "We need at least 2 participants before I can create a plan. Who else is joining?"

\* mutant of FinalReply: the request for participants is appended to the reply
FinalReplyAppending(reply, finalize, plan) ==
    IF finalize /\ plan # None THEN reply \o FinalizedNotice
    ELSE IF finalize /\ plan = None THEN reply \o NeedParticipants
    ELSE reply

\* mutant of FinalReply: the request for participants is put before the reply
FinalReplyPrepending(reply, finalize, plan) ==
    IF finalize /\ plan # None THEN reply \o FinalizedNotice
    ELSE IF finalize /\ plan = None THEN NeedParticipants \o reply
    ELSE reply

\* process_message: the reply after the finalization branch
FinalReply(reply, finalize, plan) ==
    IF finalize /\ plan # None THEN reply \o FinalizedNotice
    ELSE IF finalize /\ plan = None THEN NeedParticipants
    ELSE reply

\* mutant of FinalizedAfter: the finalized copy gets a version of its own
FinalizedAfterRenumbered(finalized, finalize, plan) ==
    IF finalize /\ plan # None THEN [plan EXCEPT !.version = @ + 1] ELSE finalized

\* mutant of FinalizedAfter: a finalized plan is kept once there is one
FinalizedAfterOnce(finalized, finalize, plan) ==
    IF finalize /\ plan # None /\ finalized = None THEN plan ELSE finalized

\* process_message: finalized_plan after the finalization branch
FinalizedAfter(finalized, finalize, plan) ==
    IF finalize /\ plan # None THEN plan ELSE finalized

\* mutant of StateAfter: finalization leaves the state as it is
StateAfterUnchanged(st, finalize, plan) == st

\* mutant of StateAfter: the state is decided by this call alone
StateAfterThisCall(st, finalize, plan) ==
    IF finalize /\ plan # None THEN "finalized" ELSE "collecting_info"

\* process_message: state after the finalization branch
StateAfter(st, finalize, plan) ==
    IF finalize /\ plan # None THEN "finalized" ELSE st

-----------------------------------------------------------------------------
(* The calls the surrounding application makes *)

\* the texts users send
\* the calls users make: text, display name and stable identifier
Inputs ==
    { [text |-> "hello everyone", name |-> "Alex", id |-> ""],
      [text |-> "I'm still UNDECIDED", name |-> "Sam", id |-> "u1"] }

\* texts with and without the phrases: a beginning, a middle and an end
TextBeginnings == {"", "un", "Please "}
TextMiddles ==
    {"finalize", "make a plan", "make plan", "let's decide", "create plan",
     "generate plan", "what's the plan", "decide",
     "FINALIZE", "Let's Decide", "What's The Plan",
     "final", "decid", "make the plan", "lets decid", "plan",
     "create a plan", "generateplan"}
TextEnds == {"", "d", " now!"}

TriggerTexts ==
    {b \o m \o e : b \in TextBeginnings, m \in TextMiddles, e \in TextEnds}

\* the calls that send one of these texts
TriggerInputs == {[text |-> t, name |-> "Sam", id |-> "u1"] : t \in TriggerTexts}

\* _should_finalize_plan on the texts above, computed once
Triggered ==
    [input \in Inputs \cup TriggerInputs |-> ShouldFinalizePlan(input.text)]

-----------------------------------------------------------------------------
(* The state machine *)

\* the session as a record, for comparison with a later state
Snapshot ==
    [participants |-> participants,
     conversation_history |-> conversation_history,
     current_plan |-> current_plan,
     finalized_plan |-> finalized_plan,
     active_users |-> active_users,
     state |-> state]

NoResult == [kind |-> "none"]
Raised == [kind |-> "raised"]
\* mutant of Returned: the plan change is never handed back
ReturnedWithoutUpdate(reply, update) ==
    [kind |-> "returned", reply |-> reply, plan_update |-> None]

\* process_message, line 200: return response, plan_update
Returned(reply, update) == [kind |-> "returned", reply |-> reply, plan_update |-> update]

Init ==
    /\ participants = <<>>
    /\ conversation_history = <<>>
    /\ current_plan = None
    /\ finalized_plan = None
    /\ active_users = {}
    /\ state = "collecting_info"
    /\ maps_available \in BOOLEAN
    /\ pc = "idle"
    /\ user_message = ""
    /\ user_name = ""
    /\ user_id = ""
    /\ should_finalize = FALSE
    /\ extracted = None
    /\ participant = None
    /\ is_new_participant = FALSE
    /\ response = ""
    /\ plan_data = None
    /\ plan_parse = "not asked"
    /\ plan_update = None
    /\ result = NoResult
    /\ pre = [participants |-> <<>>, conversation_history |-> <<>>,
              current_plan |-> None, finalized_plan |-> None,
              active_users |-> {}, state |-> "collecting_info"]
    /\ requests = <<>>
    /\ plan_attempts = {}
    /\ generations = 0
    /\ calls_made = 0
    /\ projection = None

\* the locals of an abandoned or not yet started call
ResetLocals ==
    /\ extracted' = None
    /\ participant' = None
    /\ is_new_participant' = FALSE
    /\ response' = ""
    /\ plan_data' = None
    /\ plan_parse' = "not asked"
    /\ plan_update' = None

\* an exception leaves process_message
Propagate ==
    /\ pc' = "idle"
    /\ result' = Raised
    /\ should_finalize' = FALSE
    /\ ResetLocals
    /\ requests' = <<>>
    /\ UNCHANGED <<session, maps_available, projection, user_message, user_name, user_id,
                   pre, generations, calls_made>>

\* process_message, lines 118-129: record the user's message, evaluate the trigger
ProcessMessage(input) ==
    /\ pc = "idle"
    /\ calls_made < MaxCalls
    /\ LET user_msg == Message(input.text, input.name, "user_input", input.id)
       IN  /\ conversation_history' = AddMessage(conversation_history, user_msg)
           /\ active_users' = AddActiveUser(active_users, user_msg)
    /\ user_message' = input.text
    /\ user_name' = input.name
    /\ user_id' = input.id
    /\ should_finalize' = Triggered[input]
    /\ ResetLocals
    /\ result' = NoResult
    /\ pre' = Snapshot
    /\ requests' = <<>>
    /\ calls_made' = calls_made + 1
    /\ pc' = "extract"
    /\ UNCHANGED <<participants, current_plan, finalized_plan, state,
                   maps_available, projection, plan_attempts, generations>>

\* process_message, lines 132-142: _extract_participant_info answers and the
\* participant it returns, if any, is upserted
ExtractParticipantInfo ==
    /\ pc = "extract"
    /\ \E resp \in ExtractionResponses :
        LET dict == ExtractionAnswers[resp]
            p == MakeParticipant(dict, user_name)
        IN  /\ extracted' = dict
            /\ IF NothingExtracted(dict)
               THEN participant' = None
               ELSE IF TruthyStr(p.address) /\ maps_available
               THEN \E geocoded \in GeocodeResults(p.address) :
                        participant' =
                            IF TruthyStr(geocoded)
                            THEN [p EXCEPT !.address = geocoded] ELSE p
               ELSE participant' = p
    /\ IF participant' # None
       THEN /\ participants' = AddParticipant(participants, participant')
            /\ is_new_participant' = IsNew(participants, participant')
       ELSE UNCHANGED <<participants, is_new_participant>>
    /\ requests' = Append(requests, "extract_participant_info")
    /\ pc' = "converse"
    /\ UNCHANGED <<conversation_history, current_plan, finalized_plan, active_users,
                   state, maps_available, projection, user_message, user_name, user_id,
                   should_finalize, response, plan_data, plan_parse, plan_update,
                   result, pre, plan_attempts, generations, calls_made>>

\* _extract_participant_info: the request to the oracle fails
ExtractionRaises ==
    /\ pc = "extract"
    /\ Propagate
    /\ UNCHANGED plan_attempts

\* process_message, lines 144-161: the conversational reply and the confirmation
Converse ==
    /\ pc = "converse"
    /\ \E resp \in ConversationResponses :
        response' = ConversationAnswers[resp]
                    \o (IF participant # None
                        THEN Confirmation(participant, is_new_participant) ELSE "")
    /\ requests' = Append(requests, "process_conversation")
    /\ pc' = "plan"
    /\ UNCHANGED <<session, maps_available, projection, user_message, user_name, user_id,
                   should_finalize, extracted, participant, is_new_participant,
                   plan_data, plan_parse, plan_update, result, pre, plan_attempts,
                   generations, calls_made>>

\* process_conversation: the request to the oracle fails
ConversationRaises ==
    /\ pc = "converse"
    /\ Propagate
    /\ UNCHANGED plan_attempts

\* process_message, lines 182-200: finalization, the agent's message and the
\* return, given current_plan, response and plan_update as lines 163-180 left them
Finish(plan, reply, update) ==
    /\ finalized_plan' = FinalizedAfter(finalized_plan, should_finalize, plan)
    /\ state' = StateAfter(state, should_finalize, plan)
    /\ LET final == FinalReply(reply, should_finalize, plan)
           agent_msg == Message(final, "Hangout AI", "agent_response", "system")
       IN  /\ response' = final
           /\ conversation_history' = AddMessage(conversation_history, agent_msg)
           /\ active_users' = AddActiveUser(active_users, agent_msg)
           /\ result' = Returned(final, update)
    /\ plan_update' = update
    /\ pc' = "idle"

\* process_message, lines 163-200, when line 165 decides against regeneration
SkipRegeneration ==
    /\ pc = "plan"
    /\ ~ShouldRegenerate(participant, participants)
    /\ Finish(current_plan, response, None)
    /\ UNCHANGED <<participants, current_plan, maps_available, projection, user_message,
                   user_name, user_id, should_finalize, extracted, participant,
                   is_new_participant, plan_data, plan_parse, ghosts>>

\* the calls of _generate_plan and of the plan adapter, with the roster size
Attempts(roster) ==
    {[fn |-> "_generate_plan", size |-> Len(roster)]}
    \cup (IF TooFewParticipants(roster) THEN {}
          ELSE {[fn |-> "generate_hangout_plan", size |-> Len(roster)]})

\* process_message, lines 163-200, when line 165 decides for regeneration
Regenerate ==
    /\ pc = "plan"
    /\ ShouldRegenerate(participant, participants)
    /\ \E resp \in PlanResponses :
        LET asked == ~TooFewParticipants(participants)
            data == IF asked THEN PlanAnswers[resp] ELSE None
            new_plan == GeneratePlan(participants, current_plan, data)
        IN  /\ plan_data' = data
            /\ plan_parse' = (IF asked THEN PlanParses[resp] ELSE "not asked")
            /\ requests' = (IF asked THEN Append(requests, "generate_hangout_plan")
                            ELSE requests)
            /\ IF new_plan # None
               THEN /\ current_plan' = new_plan
                    /\ generations' = generations + 1
                    /\ Finish(new_plan,
                              response \o PlanNotice(new_plan, participants),
                              PlanToDict(new_plan))
               ELSE /\ UNCHANGED <<current_plan, generations>>
                    /\ Finish(current_plan, response, None)
    /\ plan_attempts' = plan_attempts \cup Attempts(participants)
    /\ UNCHANGED <<participants, maps_available, projection, user_message, user_name, user_id,
                   should_finalize, extracted, participant, is_new_participant,
                   pre, calls_made>>

\* generate_hangout_plan: the request to the oracle fails
RegenerationRaises ==
    /\ pc = "plan"
    /\ ShouldRegenerate(participant, participants)
    /\ ~TooFewParticipants(participants)
    /\ plan_attempts' = plan_attempts \cup Attempts(participants)
    /\ Propagate

\* get_session_state: the session's projection is returned
GetSessionState ==
    /\ pc = "idle"
    /\ projection' = SessionToDict
    /\ conversation_history' = StoredAfterSlice(conversation_history, HistoryCap)
    /\ UNCHANGED <<participants, current_plan, finalized_plan, active_users, state,
                   maps_available, pc, locals, result, ghosts>>

Next ==
    \/ \E input \in Inputs : ProcessMessage(input)
    \/ ExtractParticipantInfo
    \/ ExtractionRaises
    \/ Converse
    \/ ConversationRaises
    \/ SkipRegeneration
    \/ Regenerate
    \/ RegenerationRaises

Spec == Init /\ [][Next]_vars

-----------------------------------------------------------------------------
(* The projection of sessions with a long history *)

\* the i-th message of a stored history: the users' messages alternate with
\* the agent's replies, or (every call was left by an error) there are only
\* the users' messages
StoredMessage(i, answered) ==
    IF answered /\ i % 2 = 0
    THEN Message("reply " \o ToString(i), "Hangout AI", "agent_response", "system")
    ELSE Message("message " \o ToString(i), "Sam", "user_input", "u1")

StoredHistory(n, answered) == [i \in 1..n |-> StoredMessage(i, answered)]

\* a roster of two and the first plan made for it
StoredRoster ==
    <<MakeParticipant(JsonLoads(SamJson), "Sam"),
      MakeParticipant(JsonLoads(AlexJson), "Sam")>>

StoredPlan == MakePlan(JsonLoads(PlanJson), 1)

\* sessions process_message leaves behind: nobody extracted yet, a plan made
\* by a call without the trigger, a plan finalized
ProjectionInit ==
    /\ \E n \in 0..MaxHistory, answered \in BOOLEAN,
          stage \in {"collecting", "planned", "finalized"} :
        /\ stage # "collecting" => answered /\ n >= 4 /\ n % 2 = 0
        /\ conversation_history = StoredHistory(n, answered)
        /\ active_users =
              {conversation_history[i].user_identifier : i \in 1..n}
        /\ participants = (IF stage = "collecting" THEN <<>> ELSE StoredRoster)
        /\ current_plan = (IF stage = "collecting" THEN None ELSE StoredPlan)
        /\ finalized_plan = (IF stage = "finalized" THEN StoredPlan ELSE None)
        /\ state = (IF stage = "finalized" THEN "finalized" ELSE "collecting_info")
    /\ maps_available \in BOOLEAN
    /\ pc = "idle"
    /\ user_message = ""
    /\ user_name = ""
    /\ user_id = ""
    /\ should_finalize = FALSE
    /\ extracted = None
    /\ participant = None
    /\ is_new_participant = FALSE
    /\ response = ""
    /\ plan_data = None
    /\ plan_parse = "not asked"
    /\ plan_update = None
    /\ result = NoResult
    /\ pre = Snapshot
    /\ requests = <<>>
    /\ plan_attempts = {}
    /\ generations = 0
    /\ calls_made = 0
    /\ projection = None

ProjectionNext == GetSessionState

ProjectionSpec == ProjectionInit /\ [][ProjectionNext]_vars

-----------------------------------------------------------------------------
(* The finalization trigger on many texts *)

\* process_message up to the evaluation of the trigger (line 129)
TriggerNext == \E input \in TriggerInputs : ProcessMessage(input)

TriggerSpec == Init /\ [][TriggerNext]_vars

-----------------------------------------------------------------------------
(* Properties *)

\* the last process_message call has returned
HasReturned == pc = "idle" /\ result.kind = "returned"

\* the last process_message call was left by an exception
HasRaised == pc = "idle" /\ result.kind = "raised"

\* C1: once finalized_plan is set, no later step of any process_message call
\* changes, overwrites or clears it.
FinalizedPlanNeverChanges ==
    [][finalized_plan # None => finalized_plan' = finalized_plan]_vars

\* C2: the plan installed as current_plan by the Nth successful regeneration
\* has version N: there is no plan before the first regeneration, and after N
\* of them current_plan.version = N.
VersionCountsRegenerations ==
    IF generations = 0
    THEN current_plan = None
    ELSE current_plan # None /\ current_plan.version = generations

\* C2 witness: a second regeneration has replaced the first plan.
SecondPlanInstalled ==
    /\ generations = 2
    /\ pre.current_plan # None
    /\ current_plan # pre.current_plan

\* C3: the roster never holds two participants whose names are equal up to case.
OnePerLowercaseName ==
    \A i, j \in DOMAIN participants :
        Lower(participants[i].name) = Lower(participants[j].name) => i = j

\* C3 witness: a participant was upserted under a name that differs from an
\* existing entry's name only by case, next to another participant.
SameNameOtherCaseUpserted ==
    /\ pc = "converse"
    /\ participant # None
    /\ Len(participants) >= 2
    /\ \E i \in DOMAIN pre.participants :
        /\ pre.participants[i].name # participant.name
        /\ Lower(pre.participants[i].name) = Lower(participant.name)

\* the roster entries whose name equals name up to case
EntriesNamed(roster, name) ==
    {i \in DOMAIN roster : Lower(roster[i].name) = Lower(name)}

\* C4: after a participant has been extracted and processed, the one roster
\* entry of that name is the extracted Participant: its food_preferences and
\* constraints are those of the extraction (the defaults where it has none),
\* its address is the extraction's (as _extract_participant_info returned it,
\* that is, normalised when the geocoder did so), and nothing is left of the
\* entry it replaced.
RosterEntryIsLatestExtraction ==
    (pc \in {"converse", "plan"} \/ HasReturned) /\ participant # None =>
        /\ Cardinality(EntriesNamed(participants, participant.name)) = 1
        /\ \A i \in EntriesNamed(participants, participant.name) :
            /\ participants[i].food_preferences = Get(extracted, "food_preferences", <<>>)
            /\ participants[i].constraints = Get(extracted, "constraints", <<>>)
            /\ participants[i].address = participant.address
            /\ participant.address \in
                  {Get(extracted, "address", "")}
                  \cup (IF maps_available /\ TruthyStr(Get(extracted, "address", ""))
                        THEN {Formatted(Get(extracted, "address", ""))} ELSE {})
            /\ participants[i].name = extracted.name

\* C4 witness: an entry with an address, food preferences and no constraints
\* was replaced by an extraction of the same name with no address, other food
\* preferences and constraints.
EntryReplacedByDifferentRecord ==
    /\ pc = "converse"
    /\ participant # None
    /\ ~is_new_participant
    /\ \E i \in EntriesNamed(pre.participants, participant.name) :
        /\ TruthyStr(pre.participants[i].address)
        /\ ~TruthyStr(participant.address)
        /\ pre.participants[i].food_preferences # participant.food_preferences
        /\ pre.participants[i].constraints # participant.constraints

\* C5: neither _generate_plan nor the plan adapter is ever called with fewer
\* than 2 participants, and while the roster has fewer than 2 participants
\* no plan generation has been attempted and current_plan is None.
NoPlanBelowThreshold ==
    /\ \A a \in plan_attempts : a.size >= 2
    /\ Len(participants) < 2 => plan_attempts = {} /\ current_plan = None

\* C5 witness: a call that extracted the only participant of the roster has
\* returned.
SingleParticipantProcessed ==
    /\ HasReturned
    /\ participant # None
    /\ Len(participants) = 1

\* the adapter's answer holds no plan: it is empty or has no venue_recommendation
YieldsNothing(data) ==
    \/ DOMAIN data = {}
    \/ "venue_recommendation" \notin DOMAIN data
    \/ data.venue_recommendation \in {"", NoneStr}

\* C6: when the plan adapter was asked and its answer holds no plan, the call
\* leaves current_plan (and so its version) as it was and returns no plan change.
EmptyRegenerationChangesNothing ==
    HasReturned /\ plan_parse # "not asked" /\ YieldsNothing(plan_data) =>
        /\ current_plan = pre.current_plan
        /\ result.plan_update = None

\* C6 witness: a regeneration yielded nothing while a plan existed.
EmptyRegenerationWithPlan ==
    /\ HasReturned
    /\ plan_parse # "not asked"
    /\ YieldsNothing(plan_data)
    /\ pre.current_plan # None

\* C7: when the oracle's plan answer holds no JSON object or cannot be decoded,
\* current_plan is left untouched and no plan change is returned.
MalformedPlanAnswerChangesNothing ==
    HasReturned /\ plan_parse \in {"no JSON found", "JSONDecodeError"} =>
        /\ current_plan = pre.current_plan
        /\ result.plan_update = None

\* C8: when a transport error has left process_message, the roster,
\* current_plan, finalized_plan and state are what they were before the call.
RaisedCallChangesNothing ==
    HasRaised =>
        /\ participants = pre.participants
        /\ current_plan = pre.current_plan
        /\ finalized_plan = pre.finalized_plan
        /\ state = pre.state

\* the history is the history before the call followed by the call's
\* USER_INPUT message and whatever was appended after it
UserMessageRecorded ==
    /\ Len(conversation_history) > Len(pre.conversation_history)
    /\ SubSeq(conversation_history, 1, Len(pre.conversation_history))
          = pre.conversation_history
    /\ conversation_history[Len(pre.conversation_history) + 1]
          = Message(user_message, user_name, "user_input", user_id)

\* C9: from the first step of a process_message call on, so before any request
\* to the oracle and also after an error has left the call, the call's
\* USER_INPUT message is in the history, right after the earlier messages.
UserMessageAlwaysRecorded ==
    /\ calls_made > 0 => UserMessageRecorded
    /\ pc = "extract" => requests = <<>>
    /\ requests # <<>> => UserMessageRecorded

\* C9 witness: an error has left the call and only the user's message was added.
RaisedWithUserMessage ==
    /\ HasRaised
    /\ UserMessageRecorded
    /\ Len(conversation_history) = Len(pre.conversation_history) + 1

\* C10: when a call whose text fired the finalization trigger returns and there
\* is no current_plan, the reply is exactly the fixed request for participants,
\* finalized_plan is None and state is collecting_info.
FinalizeWithoutPlanAsksForParticipants ==
    HasReturned /\ should_finalize /\ current_plan = None =>
        /\ result.reply = NeedParticipants
        /\ conversation_history[Len(conversation_history)].content = NeedParticipants
        /\ finalized_plan = None
        /\ state = "collecting_info"

\* C10 witness: such a call had also extracted a participant, whose
\* confirmation the reply dropped.
FinalizeWithoutPlanAfterExtraction ==
    /\ HasReturned
    /\ should_finalize
    /\ current_plan = None
    /\ participant # None

\* C11: when a call whose text fired the finalization trigger returns, a
\* current_plan existed before it and the call installed no new plan, then
\* finalized_plan is that plan, field by field (its version included), and
\* state is finalized.
FinalizesCurrentPlan ==
    HasReturned /\ should_finalize /\ pre.current_plan # None
                /\ result.plan_update = None =>
        /\ finalized_plan = pre.current_plan
        /\ finalized_plan.version = pre.current_plan.version
        /\ current_plan = pre.current_plan
        /\ state = "finalized"

\* C11 witness: a plan made by an earlier call is finalized for the first
\* time by a call that regenerated nothing.
PlanFinalizedWithoutRegeneration ==
    /\ HasReturned
    /\ should_finalize
    /\ pre.current_plan # None
    /\ result.plan_update = None
    /\ pre.finalized_plan = None
    /\ finalized_plan # None

\* C12: when a call whose text fired the finalization trigger returns having
\* installed a new plan, finalized_plan is that new plan (the one returned as
\* the plan change) and not the plan that was current before the call.
FinalizesRegeneratedPlan ==
    HasReturned /\ should_finalize /\ result.plan_update # None =>
        /\ finalized_plan = current_plan
        /\ PlanToDict(finalized_plan) = result.plan_update
        /\ finalized_plan # pre.current_plan
        /\ finalized_plan.version = NextVersion(pre.current_plan)

\* C12 witness: such a call replaced an existing plan, and finalized its
\* replacement.
RegeneratedPlanFinalized ==
    /\ HasReturned
    /\ should_finalize
    /\ result.plan_update # None
    /\ participant # None
    /\ pre.current_plan # None
    /\ finalized_plan.version = pre.current_plan.version + 1

\* the place of a state in collecting_info -> plan_ready -> finalized
StateRank(st) ==
    CASE st = "collecting_info" -> 0
      [] st = "plan_ready" -> 1
      [] st = "finalized" -> 2

\* C13: no step moves state backward along collecting_info -> plan_ready ->
\* finalized; state never leaves finalized and never returns from plan_ready
\* to collecting_info.
StateNeverMovesBackward ==
    [][StateRank(state') >= StateRank(state)]_vars

\* C13 witness: a call without the trigger has returned in a session that
\* was finalized before it.
CallReturnedAfterFinalization ==
    /\ HasReturned
    /\ ~should_finalize
    /\ pre.state = "finalized"
    /\ state = "finalized"

\* C14: after every completed call, state is collecting_info exactly when no
\* plan has ever been generated, and plan_ready exactly when a current_plan
\* exists and no finalized_plan is set.
StateConsistentWithPlans ==
    HasReturned =>
        /\ state = "collecting_info" <=> generations = 0
        /\ state = "plan_ready" <=> (current_plan # None /\ finalized_plan = None)

\* C15: the conversation history of a projection has min(20, number of
\* stored messages) entries, and they are the most recent stored messages in
\* the order in which they were stored.
ProjectedHistoryIsMostRecent ==
    projection # None =>
        LET total == Len(conversation_history)
            kept == IF total < 20 THEN total ELSE 20
        IN  /\ Len(projection.conversation_history) = kept
            /\ \A i \in 1..kept :
                  projection.conversation_history[i]
                      = MessageToDict(conversation_history[total - kept + i])

\* C15 witness: a history of more than 20 messages was projected, and the
\* projection begins after the oldest stored message.
LongHistoryProjected ==
    /\ projection # None
    /\ Len(conversation_history) > 20
    /\ Len(projection.conversation_history) = 20
    /\ projection.conversation_history[1] # MessageToDict(conversation_history[1])

\* C16: a step that returns a projection leaves the roster, the stored
\* conversation history (all of it), current_plan, finalized_plan,
\* active_users and state as they were.
ProjectionIsPureRead ==
    [][projection' # projection =>
          /\ participants' = participants
          /\ conversation_history' = conversation_history
          /\ current_plan' = current_plan
          /\ finalized_plan' = finalized_plan
          /\ active_users' = active_users
          /\ state' = state]_vars

\* C16 witness: a projection was returned of a session that has a roster, a
\* finalized plan and more stored messages than the projection shows.
TruncatedProjectionOfFullSession ==
    /\ projection # None
    /\ Len(conversation_history) > Len(projection.conversation_history)
    /\ participants # <<>>
    /\ finalized_plan # None

\* the phrases of the finalization trigger
TriggerPhrases ==
    {"finalize", "make a plan", "make plan", "let's decide", "create plan",
     "generate plan", "what's the plan", "decide"}

\* some part of the text, lowercased, is the phrase
OccursIn(phrase, text) ==
    \E i \in 1..Len(text) :
        /\ i + Len(phrase) - 1 <= Len(text)
        /\ LowerOfString(SubSeq(text, i, i + Len(phrase) - 1)) = phrase

\* C17: once a call has evaluated the trigger, the trigger is true exactly
\* when the lowercased text contains one of the fixed phrases anywhere, word
\* boundaries not looked at; a text containing "undecided" fires it.
TriggerIsSubstringMatch ==
    pc = "extract" =>
        /\ should_finalize <=> \E phrase \in TriggerPhrases :
                                  OccursIn(phrase, user_message)
        /\ OccursIn("undecided", user_message) => should_finalize

\* C17 witness: the trigger fired on a text that has "undecided" in it and
\* none of the phrases as a word of its own.
UndecidedFiredTrigger ==
    /\ pc = "extract"
    /\ should_finalize
    /\ OccursIn("undecided", user_message)
    /\ ~OccursIn(" decide", user_message)

\* C18: a returned call hands back a plan change exactly when it replaced
\* current_plan by a new plan, and the plan change is the projection of the
\* new current_plan; when the second participant joined a roster of one and
\* the first plan was made, that plan has version 1.
PlanChangeReturnedIffReplaced ==
    HasReturned =>
        /\ result.plan_update # None <=> current_plan # pre.current_plan
        /\ result.plan_update # None =>
              result.plan_update = PlanToDict(current_plan)
        /\ (Len(pre.participants) = 1 /\ Len(participants) = 2
                /\ pre.current_plan = None /\ current_plan # None) =>
              current_plan.version = 1 /\ result.plan_update # None

\* C18 witness: the second participant joined a roster of one and the call
\* returned the first plan as its plan change.
SecondParticipantGotFirstPlan ==
    /\ HasReturned
    /\ Len(pre.participants) = 1
    /\ Len(participants) = 2
    /\ result.plan_update # None
    /\ result.plan_update.version = 1

\* the running or last call's extraction answered, and its answer names no
\* participant: it is empty (also what unparsable output gives) or has no name
NoParticipantExtracted ==
    /\ pc \in {"converse", "plan"} \/ HasReturned
    /\ \/ DOMAIN extracted = {}
       \/ "name" \notin DOMAIN extracted
       \/ extracted.name \in {"", NoneStr}

\* C19: when the extraction names no participant, the call goes on without
\* a participant, the roster and current_plan stay as they were before the
\* call, the plan adapter is not asked, a returned call returns no plan
\* change, and the step after the conversational reply returns (it neither
\* raises nor calls _generate_plan).
EmptyExtractionIsNoError ==
    /\ [](NoParticipantExtracted =>
            /\ participant = None
            /\ participants = pre.participants
            /\ current_plan = pre.current_plan
            /\ \A i \in DOMAIN requests : requests[i] # "generate_hangout_plan"
            /\ plan_parse = "not asked"
            /\ HasReturned => result.plan_update = None)
    /\ [][NoParticipantExtracted /\ pc = "plan" =>
            /\ result'.kind = "returned"
            /\ plan_attempts' = plan_attempts]_vars

\* C19 witness: a call whose extraction answer could not be parsed or had no
\* name has returned, in a session that already had a roster of two and a plan.
EmptyExtractionReturned ==
    /\ HasReturned
    /\ NoParticipantExtracted
    /\ Len(participants) = 2
    /\ current_plan # None

\* C20: the Participant a call creates, and the roster entry it becomes,
\* carries the call's user_identifier argument as its user_identifier.
ParticipantCarriesUserId ==
    (pc \in {"converse", "plan"} \/ HasReturned) /\ participant # None =>
        /\ participant.user_identifier = user_id
        /\ \A i \in EntriesNamed(participants, participant.name) :
              participants[i].user_identifier = user_id

\* a is b or the beginning of b
IsPrefix(a, b) == Len(a) <= Len(b) /\ SubSeq(b, 1, Len(a)) = a

\* C21: the conversation history is append-only: in every step the history
\* before is a prefix of the history after, so no message is removed,
\* reordered or modified.
HistoryIsAppendOnly ==
    [][IsPrefix(conversation_history, conversation_history')]_vars

\* C21 witness: a second call has returned, its two messages after the
\* messages of the first.
SecondCallAppended ==
    /\ HasReturned
    /\ Len(pre.conversation_history) >= 2
    /\ Len(conversation_history) = Len(pre.conversation_history) + 2
    /\ IsPrefix(pre.conversation_history, conversation_history)

\* the user_identifier values of the messages of a history
Identifiers(history) == {history[i].user_identifier : i \in DOMAIN history}

\* C22: active_users is the set of the non-empty user_identifier values of
\* the messages in the history: a non-empty identifier is in it however
\* often it was added, the empty identifier never is.
ActiveUsersAreTheIdentifiers ==
    /\ active_users = Identifiers(conversation_history) \ {""}
    /\ "" \notin active_users

\* C22 witness: the history holds a message with an empty identifier and
\* two messages with the same non-empty identifier.
RepeatedAndEmptyIdentifiers ==
    /\ \E i \in DOMAIN conversation_history :
          conversation_history[i].user_identifier = ""
    /\ \E i, j \in DOMAIN conversation_history :
          /\ i # j
          /\ conversation_history[i].user_identifier # ""
          /\ conversation_history[i].user_identifier
                = conversation_history[j].user_identifier

\* C23: once add_participant has been called, it has returned true exactly
\* when no entry of the roster before matched the name up to case; then the
\* roster is the roster before with the participant appended, otherwise it
\* has the length it had, the participant in the place of the first matching
\* entry and every other entry where it was; the roster has not shrunk.
UpsertAppendsOrReplacesInPlace ==
    (pc \in {"converse", "plan"} \/ HasReturned) /\ participant # None =>
        LET before == pre.participants
            matching == EntriesNamed(before, participant.name)
        IN  /\ is_new_participant <=> matching = {}
            /\ Len(participants) >= Len(before)
            /\ IF matching = {}
               THEN participants = Append(before, participant)
               ELSE /\ Len(participants) = Len(before)
                    /\ \E i \in matching :
                          /\ \A j \in matching : i <= j
                          /\ participants[i] = participant
                          /\ \A k \in DOMAIN before :
                                k # i => participants[k] = before[k]

\* C23 witness: the first entry of a roster of two was replaced where it was.
FirstOfTwoReplacedInPlace ==
    /\ pc = "converse"
    /\ participant # None
    /\ ~is_new_participant
    /\ Len(pre.participants) = 2
    /\ participants[1] = participant
    /\ pre.participants[1] # participant

\* the running or last call extracted a participant and the roster, after
\* the upsert, has at least 2 entries
ExtractedIntoRosterOfTwo == participant # None /\ Len(participants) >= 2

\* C24: a returned call has asked the plan adapter exactly when it extracted
\* a participant and the roster after the upsert had at least 2 entries; and
\* the step that follows the conversational reply calls _generate_plan and
\* the adapter in that case, and in every other case (no participant
\* extracted, whatever the roster size, or a roster below 2) calls neither
\* and returns.
RegenerationExactlyWhenExtracted ==
    /\ [](HasReturned =>
            ((\E i \in DOMAIN requests : requests[i] = "generate_hangout_plan")
                <=> ExtractedIntoRosterOfTwo))
    /\ [][pc = "plan" =>
            IF ExtractedIntoRosterOfTwo
            THEN Attempts(participants) \subseteq plan_attempts'
                 /\ Cardinality(Attempts(participants)) = 2
            ELSE /\ plan_attempts' = plan_attempts
                 /\ requests' = requests
                 /\ result'.kind = "returned"]_vars

\* C24 witness: a returned call had extracted an update of an entry of a
\* roster of two and asked the plan adapter.
UpdateRegenerated ==
    /\ HasReturned
    /\ ExtractedIntoRosterOfTwo
    /\ ~is_new_participant
    /\ requests[Len(requests)] = "generate_hangout_plan"

\* C25: a call that has returned added exactly two messages to the history
\* it found: its USER_INPUT message and after it one AGENT_RESPONSE message,
\* whose content is the reply text handed back to the caller.
ReturnedCallAddsTwoMessages ==
    HasReturned =>
        LET before == Len(pre.conversation_history)
        IN  /\ Len(conversation_history) = before + 2
            /\ SubSeq(conversation_history, 1, before) = pre.conversation_history
            /\ conversation_history[before + 1].message_type = "user_input"
            /\ conversation_history[before + 1].content = user_message
            /\ conversation_history[before + 2].message_type = "agent_response"
            /\ conversation_history[before + 2].content = result.reply

\* C25 witness: a call has returned a reply with a confirmation and a plan
\* notice, to a history that already had messages.
LongReplyRecorded ==
    /\ HasReturned
    /\ pre.conversation_history # <<>>
    /\ participant # None
    /\ result.plan_update # None
    /\ Len(result.reply) > 40
    /\ conversation_history[Len(conversation_history)].content = result.reply

\* C26: state is finalized if and only if finalized_plan is set.
FinalizedStateIffFinalizedPlan ==
    state = "finalized" <=> finalized_plan # None

\* C26 witness: a call has finalized a plan in a session that had none
\* finalized.
FirstFinalization ==
    /\ HasReturned
    /\ pre.state = "collecting_info"
    /\ pre.finalized_plan = None
    /\ state = "finalized"
    /\ finalized_plan # None

\* C27: if finalized_plan is set then current_plan is set and
\* finalized_plan.version <= current_plan.version.
FinalizedNotNewerThanCurrent ==
    finalized_plan # None =>
        /\ current_plan # None
        /\ finalized_plan.version <= current_plan.version

\* C27 witness: the plan was regenerated after it had been finalized, by a
\* call without the trigger.
RegeneratedAfterFinalization ==
    /\ finalized_plan # None
    /\ current_plan # None
    /\ finalized_plan.version < current_plan.version

\* C28: if current_plan is set the roster has at least 2 participants, and
\* a current_plan that was set when a call began is still set at every step
\* of the call and after it.
CurrentPlanNeedsTwoAndStays ==
    /\ current_plan # None => Len(participants) >= 2
    /\ pre.current_plan # None => current_plan # None

\* C28 witness: with a plan set, a call has replaced a roster entry and its
\* regeneration yielded no plan.
PlanKeptThroughFailedRegeneration ==
    /\ HasReturned
    /\ pre.current_plan # None
    /\ participant # None
    /\ ~is_new_participant
    /\ plan_parse # "not asked"
    /\ result.plan_update = None
    /\ current_plan # None

\* C29: when a returned call extracted a participant, its text fired the
\* finalization trigger and there is no current_plan, the participant is in
\* the roster, and the reply handed back and recorded is the fixed request
\* for participants alone: the confirmation for the participant is not in it.
UpsertedButOnlyAskedForParticipants ==
    HasReturned /\ should_finalize /\ participant # None /\ current_plan = None =>
        /\ \E i \in DOMAIN participants : participants[i] = participant
        /\ result.reply = NeedParticipants
        /\ ~Contains(result.reply, participant.name)
        /\ ~Contains(result.reply, Confirmation(participant, is_new_participant))

\* C29 witness: the first participant of a session was extracted from a
\* text that fired the trigger.
FirstParticipantWithTrigger ==
    /\ HasReturned
    /\ should_finalize
    /\ is_new_participant
    /\ participants = <<participant>>
    /\ result.reply = NeedParticipants

====
